---- MODULE Spec2Model ----
(***************************************************************************)
(* Model of the washingMachine repository:                                 *)
(*   src/pwm_player.py  - WAV -> PWM duty-cycle streamer (main)            *)
(*   src/synth.py       - speech helper with backend fallback (speak)      *)
(***************************************************************************)
EXTENDS Integers, Sequences, FiniteSets, TLC

VARIABLES
    pc,         \* position of pwm_player.main
    args,       \* parsed command line of pwm_player.main
    file,       \* what wave.open reported about the container
    samples,    \* the local variable `samples` of main
    framerate,  \* the local variable `framerate` of main
    idx,        \* index of the next sample of the for loop of stream_with_carrier
    calls,      \* history of the calls made on the pigpio session
    times,      \* times[i]: microseconds since start when calls[i] came back
    wavExists,  \* what os.path.exists(args.wav) answered: "unknown" | "yes" | "no"
    session,    \* "none" | "open" | "unconnected" | "released"
    warnings,   \* number of rate warnings printed
    exc,        \* exception in flight / that ended the run ("none" when none)
    exitCode,   \* exit code of the process, -1 while running
    fnIn,       \* arguments of the pure function under check
    fnOut,      \* <<result>> once it is applied, <<>> before
    spc,        \* position of synth.speak
    sargs,      \* arguments of synth.speak: text, device, simulate
    fi,         \* index of the for loop of speak over the backends
    attempts,   \* backends called so far, in call order
    results,    \* how each finished call ended: <<"return", b>> or <<"raise", msg>>
    errors,     \* the local list `errors` of speak
    pend,       \* result of tts_pico2wave waiting for its finally block
    tmpfile,    \* temporary file of tts_pico2wave: "none" | "exists" | "removed" |
                \* "left" (os.unlink raised and the file is still there)
    procs,      \* external programs started, in order
    out,        \* lines printed by speak
    sres        \* how speak ended: "none" | "returned" | exception name

playerVars == <<pc, args, file, samples, framerate, idx, calls, times, wavExists,
                session, warnings, exc, exitCode>>
fnVars == <<fnIn, fnOut>>
speakVars == <<spc, sargs, fi, attempts, results, errors, pend, tmpfile, procs,
               out, sres>>

----------------------------------------------------------------------------
(* Bounds *)

MaxFrames == 2

----------------------------------------------------------------------------
(* Arithmetic of the Python expressions *)

\* int(x) of the exact quotient n/d (d > 0): truncation toward zero
TruncDiv(n, d) == IF n >= 0 THEN n \div d ELSE -((-n) \div d)

\* x / d on floats followed by int(): the quotient is rounded to the nearest
\* value with FracScale fractional steps (ties to even) and then truncated.
\* A double below 2^28 carries at least 25 fractional bits; 2^23 steps round
\* no finer than the double does.
FracScale == 2^23

FloatDivInt(x, d) ==
    LET q  == x \div d
        n  == (x % d) * FracScale
        fq == n \div d
        fr == n % d
        f  == IF 2 * fr > d \/ (2 * fr = d /\ fq % 2 = 1) THEN fq + 1 ELSE fq
    IN  q + (f \div FracScale)

\* variant: round(s * 1000000 / 255)
DutyOf_Nearest(s) == (2 * s * 1000000 + 255) \div 510

\* duty = int(s * 1000000 / 255)
DutyOf(s) == FloatDivInt(s * 1000000, 255)

\* variant: format '<H', the frame read as unsigned
UnpackH_Unsigned(lo, hi) == lo + 256 * hi

\* struct.unpack('<h', ...) of one frame: little endian, two's complement
UnpackH(lo, hi) ==
    LET u == lo + 256 * hi
    IN  IF u >= 32768 THEN u - 65536 ELSE u

\* variant: the >> 8 left out
ShiftSample_NoShift(v) == v + 32768

\* int((v + 32768) >> 8)
ShiftSample(v) == (v + 32768) \div 256

RECURSIVE Convert16(_)
Convert16(raw) ==
    IF Len(raw) < 2 THEN <<>>
    ELSE <<ShiftSample(UnpackH(raw[1], raw[2]))>> \o Convert16(SubSeq(raw, 3, Len(raw)))

\* the conversion of wav_to_samples for an accepted width
SamplesOf(width, raw) == IF width = 1 THEN raw ELSE Convert16(raw)

\* A gain is the float num/den; den = 0 stands for float('inf').
GainIsOne(g) == g.den # 0 /\ g.num = g.den

\* s * gain is inf or nan when gain is inf: int() raises
GainRaises(g, s) == g.den = 0

\* variant: the clipping branches left out
ScaleSample_NoClip(g, s) == TruncDiv(s * g.num, g.den)

\* the body of the gain loop for one sample
ScaleSample(g, s) ==
    LET v == TruncDiv(s * g.num, g.den)
    IN  IF v < 0 THEN 0 ELSE IF v > 255 THEN 255 ELSE v

ScaleAll(g, ss) == [i \in 1..Len(ss) |-> ScaleSample(g, ss[i])]

\* lines 101-110 of main: <<"ok", samples>> or <<"raise", exception>>
GainResult(g, ss) ==
    IF GainIsOne(g) THEN <<"ok", ss>>
    ELSE IF \E i \in 1..Len(ss) : GainRaises(g, ss[i]) THEN <<"raise", "OverflowError">>
    ELSE <<"ok", ScaleAll(g, ss)>>

----------------------------------------------------------------------------
(* Inputs *)

\* args.rate: <<>> is None (no --rate), <<r>> is --rate r
NoRate == <<>>
Rates == {NoRate, <<0>>, <<8000>>}
FileRates == {8000, 11025}
Carriers == {25000, 20000}
Pins == {18}
Gains == { [num |-> 1, den |-> 1], [num |-> 0, den |-> 1], [num |-> 3, den |-> 4],
           [num |-> 2, den |-> 1], [num |-> -1, den |-> 1], [num |-> 1, den |-> 0] }

ChannelCounts == {1, 2}
SampleWidths == {1, 2, 3}

\* frames of a container, each `width` bytes
FrameVals(width) ==
    IF width = 1 THEN { <<0>>, <<1>>, <<200>>, <<255>> }
    ELSE IF width = 2 THEN { <<0, 128>>, <<0, 0>>, <<255, 127>>, <<255, 255>> }
    ELSE { <<0, 0, 0>> }

RECURSIVE Flatten(_)
Flatten(fs) == IF fs = <<>> THEN <<>> ELSE Head(fs) \o Flatten(Tail(fs))

FrameSeqs(width) ==
    UNION { [1..n -> FrameVals(width)] : n \in 0..MaxFrames }

NoFile == [channels |-> 0, sampwidth |-> 0, framerate |-> 0, nframes |-> 0, raw |-> <<>>]

----------------------------------------------------------------------------
(* The pigpio session *)

\* one call on the session: set_mode(pin, mode), hardware_PWM(pin, freq, duty)
\* or stop(); ok is FALSE when the call raised
HwCall(op, pin, mode, freq, duty, ok) ==
    [op |-> op, pin |-> pin, mode |-> mode, freq |-> freq, duty |-> duty, ok |-> ok]

\* variant: the pin is set to input
SetModeCall_Input(pin, ok) == HwCall("set_mode", pin, "INPUT", 0, 0, ok)

SetModeCall(pin, ok) == HwCall("set_mode", pin, "OUTPUT", 0, 0, ok)
PwmCall(pin, freq, duty, ok) == HwCall("hardware_PWM", pin, "-", freq, duty, ok)
StopCall == HwCall("stop", 0, "-", 0, 0, TRUE)

\* round trip of one call to the pigpio daemon, in microseconds: the code puts
\* no bound on it
CallLatencies == {20, 125}

Now == IF times = <<>> THEN 0 ELSE times[Len(times)]

\* the call is made and comes back (or raises) after its round trip
Issue(c) ==
    /\ calls' = Append(calls, c)
    /\ \E lat \in CallLatencies : times' = Append(times, Now + lat)

\* variant: the body of main without try/finally
Raise_NoFinally(e) == /\ exc' = e
                      /\ pc' = "done"

\* an exception inside the try block of main: control goes to the finally block
Raise(e) == /\ exc' = e
            /\ pc' = "finally"

\* synth.speak not running
IdleSpeak ==
    /\ spc = "idle"
    /\ sargs = [text |-> "", device |-> "None", simulate |-> FALSE]
    /\ fi = 1
    /\ attempts = <<>>
    /\ results = <<>>
    /\ errors = <<>>
    /\ pend = <<>>
    /\ tmpfile = "none"
    /\ procs = <<>>
    /\ out = <<>>
    /\ sres = "none"

----------------------------------------------------------------------------
(* pwm_player.main *)

Init ==
    /\ pc = "start"
    /\ args \in [wav : {"speech.wav"}, gpio : Pins, rate : Rates, gain : Gains,
                 carrier : Carriers]
    /\ file = NoFile
    /\ samples = <<>>
    /\ framerate = 0
    /\ idx = 1
    /\ calls = <<>>
    /\ times = <<>>
    /\ wavExists = "unknown"
    /\ session = "none"
    /\ warnings = 0
    /\ exc = "none"
    /\ exitCode = -1
    /\ fnIn = <<>>
    /\ fnOut = <<>>
    /\ IdleSpeak

\* if not os.path.exists(args.wav): sys.exit(2)
CheckPath ==
    /\ pc = "start"
    /\ \E exists \in BOOLEAN :
         IF exists
         THEN /\ wavExists' = "yes"
              /\ pc' = "read"
              /\ UNCHANGED exitCode
         ELSE /\ wavExists' = "no"
              /\ pc' = "done"
              /\ exitCode' = 2
    /\ UNCHANGED <<args, file, samples, framerate, idx, calls, times, session,
                   warnings, exc, fnVars, speakVars>>

\* variant: the channel count is not looked at
Rejected_WidthOnly(ch, w) == w \notin {1, 2}

\* the two raise ValueError(...) of wav_to_samples
Rejected(ch, w) == ch # 1 \/ w \notin {1, 2}

\* samples, framerate = wav_to_samples(args.wav)
ReadWav ==
    /\ pc = "read"
    /\ \E ch \in ChannelCounts, w \in SampleWidths, fr \in FileRates :
       \E fs \in FrameSeqs(w) :
         /\ file' = [channels |-> ch, sampwidth |-> w, framerate |-> fr,
                     nframes |-> Len(fs),
                     raw |-> IF ch = 1 THEN Flatten(fs) ELSE <<>>]
         /\ IF Rejected(ch, w)
            THEN /\ exc' = "ValueError"
                 /\ exitCode' = 1
                 /\ pc' = "done"
                 /\ UNCHANGED <<samples, framerate>>
            ELSE /\ samples' = SamplesOf(w, Flatten(fs))
                 /\ framerate' = fr
                 /\ pc' = "rate"
                 /\ UNCHANGED <<exc, exitCode>>
    /\ UNCHANGED <<args, idx, calls, times, wavExists, session, warnings, fnVars, speakVars>>

\* if args.rate and args.rate != framerate: print('Warning: ...')
RateMismatch(rate, fr) == rate # NoRate /\ rate[1] # 0 /\ rate[1] # fr

RateCheck ==
    /\ pc = "rate"
    /\ warnings' = IF RateMismatch(args.rate, framerate) THEN warnings + 1 ELSE warnings
    /\ pc' = "connect"
    /\ UNCHANGED <<args, file, samples, framerate, idx, calls, times, wavExists, session,
                   exc, exitCode, fnVars, speakVars>>

\* variant: pi.connected is not tested
Connect_Unchecked ==
    /\ pc = "connect"
    /\ \E connected \in BOOLEAN :
         session' = IF connected THEN "open" ELSE "unconnected"
    /\ pc' = "gain"
    /\ UNCHANGED <<args, file, samples, framerate, idx, calls, times, wavExists, warnings,
                   exc, exitCode, fnVars, speakVars>>

\* pi = pigpio.pi(); if not pi.connected: sys.exit(3)
Connect ==
    /\ pc = "connect"
    /\ \E connected \in BOOLEAN :
         IF connected
         THEN /\ session' = "open"
              /\ pc' = "gain"
              /\ UNCHANGED exitCode
         ELSE /\ session' = "unconnected"
              /\ pc' = "done"
              /\ exitCode' = 3
    /\ UNCHANGED <<args, file, samples, framerate, idx, calls, times, wavExists, warnings,
                   exc, fnVars, speakVars>>

\* if args.gain != 1.0: samples = [clip(int(s * args.gain)) for s in samples]
GainStage ==
    /\ pc = "gain"
    /\ LET r == GainResult(args.gain, samples)
       IN  IF r[1] = "raise"
           THEN /\ Raise(r[2])
                /\ UNCHANGED samples
           ELSE /\ samples' = r[2]
                /\ pc' = "set_mode"
                /\ UNCHANGED exc
    /\ UNCHANGED <<args, file, framerate, idx, calls, times, wavExists, session, warnings,
                   exitCode, fnVars, speakVars>>

\* pi_local.set_mode(gpio_local, pigpio.OUTPUT)
SetMode ==
    /\ pc = "set_mode"
    /\ \E ok \in BOOLEAN :
         /\ Issue(SetModeCall(args.gpio, ok))
         /\ IF ok THEN pc' = "init_pwm" /\ UNCHANGED exc
                  ELSE Raise("pigpio.error")
    /\ UNCHANGED <<args, file, samples, framerate, idx, wavExists, session, warnings,
                   exitCode, fnVars, speakVars>>

\* pi_local.hardware_PWM(gpio_local, carrier_hz, 0)
InitPWM ==
    /\ pc = "init_pwm"
    /\ \E ok \in BOOLEAN :
         /\ Issue(PwmCall(args.gpio, args.carrier, 0, ok))
         /\ IF ok THEN /\ pc' = IF idx <= Len(samples) THEN "stream" ELSE "stop_pwm"
                       /\ UNCHANGED exc
                  ELSE Raise("pigpio.error")
    /\ UNCHANGED <<args, file, samples, framerate, idx, wavExists, session, warnings,
                   exitCode, fnVars, speakVars>>

\* for s in samples_local: pi_local.hardware_PWM(gpio_local, carrier_hz, duty)
SampleCall(i, ok) ==
    PwmCall(args.gpio, args.carrier, DutyOf(samples[i]), ok)

\* variant: the loop steps over every other sample
NextIndex_Skip(i) == i + 2

\* the for loop takes the samples one after the other
NextIndex(i) == i + 1

\* variant: a failed update is skipped and the loop goes on
SamplePWM_Continue ==
    /\ pc = "stream"
    /\ idx <= Len(samples)
    /\ \E ok \in BOOLEAN : Issue(SampleCall(idx, ok))
    /\ idx' = NextIndex(idx)
    /\ pc' = IF idx' <= Len(samples) THEN "stream" ELSE "stop_pwm"
    /\ UNCHANGED <<args, file, samples, framerate, wavExists, session, warnings,
                   exc, exitCode, fnVars, speakVars>>

SamplePWM ==
    /\ pc = "stream"
    /\ idx <= Len(samples)
    /\ \E ok \in BOOLEAN :
         /\ Issue(SampleCall(idx, ok))
         /\ IF ok THEN /\ idx' = NextIndex(idx)
                       /\ pc' = IF idx' <= Len(samples) THEN "stream" ELSE "stop_pwm"
                       /\ UNCHANGED exc
                  ELSE /\ Raise("pigpio.error")
                       /\ UNCHANGED idx
    /\ UNCHANGED <<args, file, samples, framerate, wavExists, session, warnings,
                   exitCode, fnVars, speakVars>>

\* variant: the closing call keeps the carrier frequency
StopPWM_Carrier ==
    /\ pc = "stop_pwm"
    /\ \E ok \in BOOLEAN :
         /\ Issue(PwmCall(args.gpio, args.carrier, 0, ok))
         /\ exc' = IF ok THEN exc ELSE "pigpio.error"
         /\ pc' = "finally"
    /\ UNCHANGED <<args, file, samples, framerate, idx, wavExists, session, warnings,
                   exitCode, fnVars, speakVars>>

\* pi_local.hardware_PWM(gpio_local, 0, 0)
StopPWM ==
    /\ pc = "stop_pwm"
    /\ \E ok \in BOOLEAN :
         /\ Issue(PwmCall(args.gpio, 0, 0, ok))
         /\ exc' = IF ok THEN exc ELSE "pigpio.error"
         /\ pc' = "finally"
    /\ UNCHANGED <<args, file, samples, framerate, idx, wavExists, session, warnings,
                   exitCode, fnVars, speakVars>>

\* variant: the exception is dropped after the cleanup
Finally_Swallow ==
    /\ pc = "finally"
    /\ Issue(StopCall)
    /\ session' = "released"
    /\ exitCode' = 0
    /\ pc' = "done"
    /\ UNCHANGED <<args, file, samples, framerate, idx, wavExists, warnings, exc,
                   fnVars, speakVars>>

\* finally: pi.stop()
Finally ==
    /\ pc = "finally"
    /\ Issue(StopCall)
    /\ session' = "released"
    /\ exitCode' = IF exc = "none" THEN 0 ELSE 1
    /\ pc' = "done"
    /\ UNCHANGED <<args, file, samples, framerate, idx, wavExists, warnings, exc, fnVars, speakVars>>

Next ==
    \/ CheckPath
    \/ ReadWav
    \/ RateCheck
    \/ Connect
    \/ GainStage
    \/ SetMode
    \/ InitPWM
    \/ SamplePWM
    \/ StopPWM
    \/ Finally

vars == <<pc, args, file, samples, framerate, idx, calls, times, wavExists, session,
          warnings, exc, exitCode, fnIn, fnOut, spc, sargs, fi, attempts,
          results, errors, pend, tmpfile, procs, out, sres>>

Spec == Init /\ [][Next]_vars

----------------------------------------------------------------------------
(* The pure functions of the pipeline, applied to every input of their domain *)

MaxAmp == 255
Bytes == 0..MaxAmp

IdlePlayer ==
    /\ pc = "idle"
    /\ args = [wav |-> "speech.wav", gpio |-> 18, rate |-> NoRate,
               gain |-> [num |-> 1, den |-> 1], carrier |-> 25000]
    /\ file = NoFile
    /\ samples = <<>>
    /\ framerate = 0
    /\ idx = 1
    /\ calls = <<>>
    /\ times = <<>>
    /\ wavExists = "unknown"
    /\ session = "none"
    /\ warnings = 0
    /\ exc = "none"
    /\ exitCode = -1

\* duty = int(s * 1000000 / 255) for two amplitudes
InitDuty ==
    /\ IdlePlayer
    /\ IdleSpeak
    /\ fnIn \in [fn : {"duty"}, a : Bytes, b : Bytes]
    /\ fnOut = <<>>

ApplyDuty ==
    /\ fnIn.fn = "duty"
    /\ fnOut = <<>>
    /\ fnOut' = <<[a |-> DutyOf(fnIn.a), b |-> DutyOf(fnIn.b)]>>
    /\ UNCHANGED <<playerVars, speakVars, fnIn>>

NextDuty == ApplyDuty

SpecDuty == InitDuty /\ [][NextDuty]_vars

\* the sample conversion of wav_to_samples for one frame of either width
InitDecode ==
    /\ IdlePlayer
    /\ IdleSpeak
    /\ fnIn \in [fn : {"decode"}, width : {1}, raw : [1..1 -> Bytes]]
            \cup [fn : {"decode"}, width : {2}, raw : [1..2 -> Bytes]]
    /\ fnOut = <<>>

ApplyDecode ==
    /\ fnIn.fn = "decode"
    /\ fnOut = <<>>
    /\ fnOut' = <<SamplesOf(fnIn.width, fnIn.raw)>>
    /\ UNCHANGED <<playerVars, speakVars, fnIn>>

NextDecode == ApplyDecode

SpecDecode == InitDecode /\ [][NextDecode]_vars

\* the gain stage on runs of consecutive amplitudes, for gains that are exact
\* binary fractions (so that s * gain is exact on floats), inf and a negative
MaxRun == 2
Ramp(a, n) == [i \in 1..n |-> (a + i - 1) % (MaxAmp + 1)]
WideGains == [num : 0..9, den : {1, 2, 4}]
                \cup {[num |-> 1, den |-> 0], [num |-> -1, den |-> 2]}

InitGain ==
    /\ IdlePlayer
    /\ IdleSpeak
    /\ fnIn \in [fn : {"gain"}, gain : WideGains,
                  ss : {Ramp(a, n) : a \in Bytes, n \in 0..MaxRun}]
    /\ fnOut = <<>>

ApplyGain ==
    /\ fnIn.fn = "gain"
    /\ fnOut = <<>>
    /\ fnOut' = <<GainResult(fnIn.gain, fnIn.ss)>>
    /\ UNCHANGED <<playerVars, speakVars, fnIn>>

NextGain == ApplyGain

SpecGain == InitGain /\ [][NextGain]_vars

----------------------------------------------------------------------------
(* synth.speak *)

\* for fn in (tts_espeak, tts_pico2wave, tts_pyttsx3)
Backends == <<"tts_espeak", "tts_pico2wave", "tts_pyttsx3">>

Texts == {"", "hello", "wash done"}
Devices == {"None", "plughw:0,0"}

Returned(b) == <<"return", b>>
Raised(msg) == <<"raise", msg>>

\* variant: the loop goes on after a success
Succeeded_Never(r) == FALSE

\* if success: return
Succeeded(r) == r = Returned(TRUE)

\* the body of the for loop after fn(text, device=device) ended with r
AfterCall(fn, r) ==
    /\ results' = Append(results, r)
    /\ IF Succeeded(r)
       THEN /\ sres' = "returned"
            /\ spc' = "done"
            /\ UNCHANGED <<errors, fi>>
       ELSE /\ errors' = IF r[1] = "raise" THEN Append(errors, <<fn, r[2]>>) ELSE errors
            /\ fi' = fi + 1
            /\ spc' = IF fi + 1 > Len(Backends) THEN "failed" ELSE "try"
            /\ UNCHANGED sres

InitSpeak ==
    /\ IdlePlayer
    /\ fnIn = <<>>
    /\ fnOut = <<>>
    /\ spc = "start"
    /\ sargs \in [text : Texts, device : Devices, simulate : BOOLEAN]
    /\ fi = 1
    /\ attempts = <<>>
    /\ results = <<>>
    /\ errors = <<>>
    /\ pend = <<>>
    /\ tmpfile = "none"
    /\ procs = <<>>
    /\ out = <<>>
    /\ sres = "none"

\* variant: the simulate flag is not looked at
SpeakEnter_NoSimulate ==
    /\ spc = "start"
    /\ IF sargs.text = ""
       THEN /\ sres' = "ValueError"
            /\ spc' = "done"
       ELSE /\ spc' = "try"
            /\ UNCHANGED sres
    /\ UNCHANGED <<playerVars, fnVars, sargs, fi, attempts, results, errors, pend,
                   tmpfile, procs, out>>

\* speak, lines 77-83
SpeakEnter ==
    /\ spc = "start"
    /\ IF sargs.text = ""
       THEN /\ sres' = "ValueError"
            /\ spc' = "done"
            /\ UNCHANGED out
       ELSE IF sargs.simulate
       THEN /\ out' = Append(out, [stream |-> "stdout",
                                   line |-> <<"[simulate] would speak:", sargs.text>>])
            /\ sres' = "returned"
            /\ spc' = "done"
       ELSE /\ spc' = "try"
            /\ UNCHANGED <<out, sres>>
    /\ UNCHANGED <<playerVars, fnVars, sargs, fi, attempts, results, errors, pend,
                   tmpfile, procs>>

\* aplay, with -D device when a device is given
Aplay == IF sargs.device = "None" THEN <<"aplay">> ELSE <<"aplay", "-D", sargs.device>>

\* tts_espeak
TtsEspeak ==
    /\ spc = "try"
    /\ Backends[fi] = "tts_espeak"
    /\ attempts' = Append(attempts, "tts_espeak")
    /\ \E found \in BOOLEAN, rc \in {0, 1} :
         IF ~found
         THEN /\ AfterCall("tts_espeak", Raised("espeak not found"))
              /\ UNCHANGED procs
         ELSE /\ procs' = procs \o <<<<"espeak", "--stdout", sargs.text>>, Aplay>>
              /\ AfterCall("tts_espeak", Returned(rc = 0))
    /\ UNCHANGED <<playerVars, fnVars, sargs, pend, tmpfile, out>>

\* tts_pico2wave up to mkstemp
PicoEnter ==
    /\ spc = "try"
    /\ Backends[fi] = "tts_pico2wave"
    /\ attempts' = Append(attempts, "tts_pico2wave")
    /\ \E found \in BOOLEAN :
         IF ~found
         THEN /\ AfterCall("tts_pico2wave", Raised("pico2wave not found"))
              /\ UNCHANGED tmpfile
         ELSE /\ tmpfile' = "exists"
              /\ spc' = "pico_synth"
              /\ UNCHANGED <<results, errors, fi, sres>>
    /\ UNCHANGED <<playerVars, fnVars, sargs, pend, procs, out>>

\* variant: no try/finally around the synthesis
PicoSynth_NoFinally ==
    /\ spc = "pico_synth"
    /\ procs' = Append(procs, <<"pico2wave", "-w", "tmp.wav", sargs.text>>)
    /\ \E ok \in BOOLEAN :
         IF ok
         THEN /\ spc' = "pico_play"
              /\ UNCHANGED <<results, errors, fi, sres>>
         ELSE AfterCall("tts_pico2wave", Raised("CalledProcessError pico2wave"))
    /\ UNCHANGED <<playerVars, fnVars, sargs, attempts, pend, tmpfile, out>>

\* subprocess.run(["pico2wave", "-w", wav, text], check=True)
PicoSynth ==
    /\ spc = "pico_synth"
    /\ procs' = Append(procs, <<"pico2wave", "-w", "tmp.wav", sargs.text>>)
    /\ \E ok \in BOOLEAN :
         IF ok
         THEN /\ spc' = "pico_play"
              /\ UNCHANGED pend
         ELSE /\ pend' = Raised("CalledProcessError pico2wave")
              /\ spc' = "pico_finally"
    /\ UNCHANGED <<playerVars, fnVars, sargs, fi, attempts, results, errors, tmpfile,
                   out, sres>>

\* play_wav(wav, device=device); return True
PicoPlay ==
    /\ spc = "pico_play"
    /\ procs' = Append(procs, <<"aplay", "tmp.wav">> \o Tail(Aplay))
    /\ \E ok \in BOOLEAN :
         pend' = IF ok THEN Returned(TRUE) ELSE Raised("CalledProcessError aplay")
    /\ spc' = "pico_finally"
    /\ UNCHANGED <<playerVars, fnVars, sargs, fi, attempts, results, errors, tmpfile,
                   out, sres>>

\* finally: try: os.unlink(wav) except Exception: pass
PicoFinally ==
    /\ spc = "pico_finally"
    /\ \E unlinked \in BOOLEAN :
         tmpfile' = IF unlinked THEN "removed" ELSE "left"
    /\ AfterCall("tts_pico2wave", pend)
    /\ pend' = <<>>
    /\ UNCHANGED <<playerVars, fnVars, sargs, attempts, procs, out>>

\* tts_pyttsx3
TtsPyttsx3 ==
    /\ spc = "try"
    /\ Backends[fi] = "tts_pyttsx3"
    /\ attempts' = Append(attempts, "tts_pyttsx3")
    /\ \E r \in {Raised("pyttsx3 not available"), Raised("engine error"), Returned(TRUE)} :
         AfterCall("tts_pyttsx3", r)
    /\ UNCHANGED <<playerVars, fnVars, sargs, pend, tmpfile, procs, out>>

\* speak, lines 95-96
SpeakFail ==
    /\ spc = "failed"
    /\ out' = Append(out, [stream |-> "stderr",
                            line |-> <<"All TTS methods failed:", errors>>])
    /\ sres' = "RuntimeError"
    /\ spc' = "done"
    /\ UNCHANGED <<playerVars, fnVars, sargs, fi, attempts, results, errors, pend,
                   tmpfile, procs>>

NextSpeak ==
    \/ SpeakEnter
    \/ TtsEspeak
    \/ PicoEnter
    \/ PicoSynth
    \/ PicoPlay
    \/ PicoFinally
    \/ TtsPyttsx3
    \/ SpeakFail

SpecSpeak == InitSpeak /\ [][NextSpeak]_vars

----------------------------------------------------------------------------
(* Properties *)

\* d = floor(n / m) for m > 0, stated without division
IsFloorOf(d, n, m) == d * m <= n /\ n < (d + 1) * m

Clamp(v) == IF v < 0 THEN 0 ELSE IF v > 255 THEN 255 ELSE v

\* n / d rounded to the nearest integer, ties to even (n >= 0, d > 0)
RoundRat(n, d) ==
    LET q == n \div d
        r == n % d
    IN  IF 2 * r > d \/ (2 * r = d /\ q % 2 = 1) THEN q + 1 ELSE q

\* the 16-bit two's complement value of the little-endian byte pair
Signed16(lo, hi) == ((lo + 256 * hi + 32768) % 65536) - 32768

IsSilence(c) == c.op = "hardware_PWM" /\ c.freq = 0 /\ c.duty = 0

StopsOf == Cardinality({i \in 1..Len(calls) : calls[i].op = "stop"})

AllCallsOk == \A i \in 1..Len(calls) : calls[i].ok

\* main is past the rate check of lines 91-92
PastRateCheck ==
    \/ pc \in {"connect", "gain", "set_mode", "init_pwm", "stream", "stop_pwm", "finally"}
    \/ pc = "done" /\ session # "none"

\* C1: once the session is released, every failed set_mode, initial or
\* per-sample hardware_PWM call is followed by a hardware_PWM(pin, 0, 0) call
\* that precedes the release.
C1_SilencedAfterFailure ==
    session = "released" =>
        \A i \in 1..Len(calls) :
            (~calls[i].ok /\ ~IsSilence(calls[i])) =>
                \E j \in (i + 1)..Len(calls) :
                    /\ IsSilence(calls[j])
                    /\ calls[j].pin = args.gpio
                    /\ \A k \in 1..j : calls[k].op # "stop"

\* C2: a connected session is never stopped twice, and when main has ended
\* it has been stopped exactly once, whether the stream completed, a hardware
\* call failed or the gain stage failed.
C2_ReleasedExactlyOnce ==
    /\ StopsOf <= 1
    /\ (pc = "done" /\ session \in {"open", "released"}) =>
            (StopsOf = 1 /\ session = "released")

C2_Witness ==
    /\ pc = "done"
    /\ StopsOf = 1
    /\ exc = "pigpio.error"
    /\ Len(calls) >= 4
    /\ ~calls[3].ok

\* C3: a run that ends without any failed hardware call has issued, after
\* set_mode and the initial call, exactly one hardware_PWM call per sample,
\* the i-th with the configured carrier and floor(s[i] * 1000000 / 255),
\* followed by the silencing call and the release.
C3_EverySampleOnceInOrder ==
    (pc = "done" /\ session = "released" /\ exc = "none" /\ AllCallsOk) =>
        /\ Len(calls) = Len(samples) + 4
        /\ \A i \in 1..Len(samples) :
              /\ calls[i + 2].op = "hardware_PWM"
              /\ calls[i + 2].pin = args.gpio
              /\ calls[i + 2].freq = args.carrier
              /\ IsFloorOf(calls[i + 2].duty, samples[i] * 1000000, 255)

C3_Witness ==
    /\ pc = "done"
    /\ exitCode = 0
    /\ Len(samples) >= 2
    /\ samples[1] # samples[2]
    /\ args.carrier # 25000
    /\ ~GainIsOne(args.gain)

\* C4: a container with a channel count other than 1 or a sample width other
\* than 1 or 2 bytes ends the run with an error, no session opened and no
\* hardware call issued.
C4_RejectedBeforeHardware ==
    (file.channels \notin {0, 1} \/ file.sampwidth \notin {0, 1, 2}) =>
        /\ pc = "done"
        /\ exc = "ValueError"
        /\ exitCode = 1
        /\ session = "none"
        /\ calls = <<>>

C4_Witness ==
    /\ file.channels = 2
    /\ file.sampwidth = 2
    /\ pc = "done"
    /\ exitCode = 1

\* C5: past the rate check, exactly one warning has been printed when --rate
\* was supplied and differs from the file's rate, and none otherwise.
C5_WarnsOnEveryMismatch ==
    PastRateCheck =>
        warnings = IF args.rate # NoRate /\ args.rate[1] # framerate THEN 1 ELSE 0

\* C6: a missing input path ends the run with exit code 2 and an unconnected
\* session with exit code 3, these are the only ways to those codes, and no
\* call has been issued on the session in either case.
C6_ExitCodes ==
    /\ wavExists = "no" => (pc = "done" /\ exitCode = 2)
    /\ session = "unconnected" => (pc = "done" /\ exitCode = 3)
    /\ exitCode = 2 => wavExists = "no"
    /\ exitCode = 3 => session = "unconnected"
    /\ exitCode \in {2, 3} => calls = <<>>

C6_Witness ==
    /\ session = "unconnected"
    /\ exitCode = 3
    /\ wavExists = "yes"
    /\ Len(samples) > 0

\* C7: for amplitudes a, b in 0..255 the duty cycle of a is
\* floor(a * 1000000 / 255), lies in 0..1000000, is 0 for 0 and 1000000 for
\* 255, and a <= b implies duty(a) <= duty(b).
C7_DutyIsFloor ==
    (fnIn # <<>> /\ fnIn.fn = "duty" /\ fnOut # <<>>) =>
        LET d == fnOut[1]
        IN  /\ IsFloorOf(d.a, fnIn.a * 1000000, 255)
            /\ d.a \in 0..1000000
            /\ fnIn.a = 0 => d.a = 0
            /\ fnIn.a = 255 => d.a = 1000000
            /\ fnIn.a <= fnIn.b => d.a <= d.b

C7_Witness ==
    /\ fnIn # <<>>
    /\ fnIn.fn = "duty"
    /\ fnIn.a = 128
    /\ fnIn.b = 255
    /\ fnOut = <<[a |-> 501960, b |-> 1000000]>>

\* C8: a 16-bit frame of signed value v becomes floor((v + 32768) / 256),
\* which lies in 0..255; -32768 gives 0, 0 gives 128, 32767 gives 255; an
\* 8-bit frame is passed through unchanged.
C8_Decode ==
    (fnIn # <<>> /\ fnIn.fn = "decode" /\ fnOut # <<>>) =>
        LET o == fnOut[1]
        IN  IF fnIn.width = 1
            THEN o = fnIn.raw
            ELSE LET v == Signed16(fnIn.raw[1], fnIn.raw[2])
                 IN  /\ Len(o) = 1
                     /\ o[1] \in 0..255
                     /\ IsFloorOf(o[1], v + 32768, 256)
                     /\ v = -32768 => o[1] = 0
                     /\ v = 0 => o[1] = 128
                     /\ v = 32767 => o[1] = 255

C8_Witness ==
    /\ fnIn # <<>>
    /\ fnIn.fn = "decode"
    /\ fnIn.width = 2
    /\ fnIn.raw = <<0, 128>>
    /\ fnOut = <<<<0>>>>

FiniteNonNegative(g) == g.den > 0 /\ g.num >= 0

C10_FirstSuccessEnds ==
    /\ Len(attempts) <= 3
    /\ \A i \in 1..Len(attempts) :
          attempts[i] = <<"tts_espeak", "tts_pico2wave", "tts_pyttsx3">>[i]
    /\ \A i \in 1..Len(results) :
          results[i] = <<"return", TRUE>> =>
              /\ i = Len(attempts)
              /\ sres = "returned"
              /\ spc = "done"
    /\ (sres = "returned" /\ ~sargs.simulate) =>
          (results # <<>> /\ results[Len(results)] = <<"return", TRUE>>)

C10_Witness ==
    /\ sres = "returned"
    /\ attempts = <<"tts_espeak", "tts_pico2wave">>
    /\ results = <<<<"return", FALSE>>, <<"return", TRUE>>>>

\* C11 as claimed: when speak ends with RuntimeError, the list it prints holds
\* one message for each of the three backends, however each of them failed.
C11_EveryFailureReported ==
    sres = "RuntimeError" =>
        /\ Len(results) = 3
        /\ Len(errors) = 3
        /\ \A i \in 1..3 : errors[i][1] = attempts[i]
        /\ out = <<[stream |-> "stderr", line |-> <<"All TTS methods failed:", errors>>]>>

\* C12: with simulate set and a non-empty text, speak calls no backend, starts
\* no program, creates no file, prints what would be spoken and returns.
C12_SimulateTouchesNothing ==
    (spc # "idle" /\ sargs.simulate /\ sargs.text # "") =>
        /\ attempts = <<>>
        /\ procs = <<>>
        /\ tmpfile = "none"
        /\ spc \in {"start", "done"}
        /\ spc = "done" =>
              /\ sres = "returned"
              /\ out = <<[stream |-> "stdout",
                          line |-> <<"[simulate] would speak:", sargs.text>>]>>

C12_Witness ==
    /\ sargs.simulate
    /\ sargs.text = "wash done"
    /\ spc = "done"
    /\ sres = "returned"
    /\ Len(out) = 1

\* time between the return of the initial call and the return of the last
\* per-sample call, in microseconds
StreamingTime == times[Len(samples) + 2] - times[2]

\* C13 as claimed: a run that streamed all its n samples without failure spent
\* about n / framerate seconds streaming; stated with a wide tolerance, at
\* least half of that time.
C13_PacedAtSampleRate ==
    (pc = "done" /\ exitCode = 0 /\ samples # <<>>) =>
        2 * StreamingTime * framerate >= Len(samples) * 1000000

\* C14: the first call on the session other than stop() is
\* set_mode(pin, OUTPUT), the next is hardware_PWM(pin, carrier, 0), and any
\* further call comes after both of them succeeded.
C14_ConfiguredBeforeStreaming ==
    /\ \A i \in 1..Len(calls) :
          calls[i].op # "stop" =>
              /\ i = 1 => (calls[i].op = "set_mode" /\ calls[i].pin = args.gpio
                            /\ calls[i].mode = "OUTPUT")
              /\ i = 2 => (calls[i].op = "hardware_PWM" /\ calls[i].pin = args.gpio
                            /\ calls[i].freq = args.carrier /\ calls[i].duty = 0)
              /\ i >= 2 => calls[1].ok
              /\ i >= 3 => (calls[2].ok /\ calls[i].op = "hardware_PWM")

C14_Witness ==
    /\ Len(calls) >= 3
    /\ calls[3].op = "hardware_PWM"
    /\ calls[3].freq = args.carrier
    /\ calls[3].duty = 784313

\* C15: stop() is never followed by another call, and a run without failure
\* ends with exactly one hardware_PWM(pin, 0, 0), issued after the last sample
\* update and immediately before stop().
C15_SilencedThenReleased ==
    /\ \A i \in 1..Len(calls) : calls[i].op = "stop" => i = Len(calls)
    /\ (pc = "done" /\ session = "released" /\ exc = "none" /\ AllCallsOk) =>
          LET n == Len(calls)
          IN  /\ n = Len(samples) + 4
              /\ calls[n].op = "stop"
              /\ IsSilence(calls[n - 1])
              /\ calls[n - 1].pin = args.gpio
              /\ Cardinality({i \in 1..n : IsSilence(calls[i])}) = 1

C15_Witness ==
    /\ pc = "done"
    /\ exitCode = 0
    /\ Len(samples) >= 1
    /\ Len(calls) = Len(samples) + 4
    /\ IsSilence(calls[Len(calls) - 1])

\* C16: a run in which a hardware call failed never ends with exit code 0:
\* it ends, after the release, with the error and a non-zero exit code.
C16_FailureSurfaces ==
    /\ exitCode = 0 => (AllCallsOk /\ exc = "none")
    /\ (pc = "done" /\ ~AllCallsOk) =>
          (exitCode = 1 /\ exc = "pigpio.error" /\ session = "released")

C16_Witness ==
    /\ pc = "done"
    /\ exitCode = 1
    /\ Len(calls) >= 3
    /\ ~calls[3].ok

\* C17: every hardware_PWM call carries a duty cycle in 0..1000000, and every
\* sample of main is in 0..255, with or without the gain stage.
C17_DutyInRange ==
    /\ \A i \in 1..Len(calls) :
          calls[i].op = "hardware_PWM" => calls[i].duty \in 0..1000000
    /\ \A i \in 1..Len(samples) : samples[i] \in 0..255

C17_Witness ==
    /\ file.sampwidth = 2
    /\ args.gain = [num |-> 2, den |-> 1]
    /\ \E i \in 1..Len(calls) : calls[i].duty = 1000000

\* C18 as claimed: an accepted container never yields an empty sample
\* sequence, so the streamer never runs over zero samples.
C18_NonEmptyWaveform ==
    (pc \in {"set_mode", "init_pwm", "stream", "stop_pwm", "finally"}) =>
        samples # <<>>

IsSampleCall(i) ==
    i >= 3 /\ calls[i].op = "hardware_PWM" /\ calls[i].freq = args.carrier

\* C19: when the per-sample call for sample k fails, the calls for samples
\* 1..k-1 were issued in order and succeeded, and no per-sample call follows.
C19_FailureStopsStream ==
    \A c \in 3..Len(calls) :
        (IsSampleCall(c) /\ ~calls[c].ok) =>
            /\ c - 2 <= Len(samples)
            /\ IsFloorOf(calls[c].duty, samples[c - 2] * 1000000, 255)
            /\ \A j \in 3..(c - 1) :
                  /\ IsSampleCall(j)
                  /\ calls[j].ok
                  /\ IsFloorOf(calls[j].duty, samples[j - 2] * 1000000, 255)
            /\ \A j \in (c + 1)..Len(calls) : ~IsSampleCall(j)
            /\ idx = c - 2

C19_Witness ==
    /\ pc = "done"
    /\ Len(calls) = 5
    /\ calls[3].ok
    /\ IsSampleCall(4)
    /\ ~calls[4].ok

\* tts_pico2wave has returned or raised
PicoCallEnded == Len(results) >= 2

\* C20 as claimed: once tts_pico2wave has returned or raised, no temporary
\* file of that call remains.
C20_TempFileRemoved ==
    PicoCallEnded => tmpfile \in {"none", "removed"}

\* C20 amended: once tts_pico2wave has returned or raised, os.unlink has been
\* tried on the temporary file it created, whichever way the call ended; no
\* file was created only when pico2wave was not found.
C20_UnlinkAlwaysTried ==
    /\ PicoCallEnded =>
          /\ tmpfile \in {"none", "removed", "left"}
          /\ tmpfile = "none" <=> results[2] = <<"raise", "pico2wave not found">>
    /\ tmpfile = "exists" => spc \in {"pico_synth", "pico_play", "pico_finally"}

C20_Witness ==
    /\ PicoCallEnded
    /\ results[2] = <<"raise", "CalledProcessError aplay">>
    /\ tmpfile = "removed"
====
